---- MODULE Spec2Model ----
(***************************************************************************)
(* wav2mono: classification of a WAV asset as dual-mono or true stereo and *)
(* reduction of dual-mono assets to one channel (src/src/lib.rs).          *)
(*                                                                         *)
(* One behaviour of Spec is one call of process_wav_file on one asset.     *)
(* The file system is a map from paths to file contents plus the set of    *)
(* routing directories that exist.  A file's content is its header (the    *)
(* hound WavSpec) and its sample stream; two files are byte-identical      *)
(* exactly when these records are equal.                                   *)
(*                                                                         *)
(* Arithmetic.  The code normalises samples to f32 and accumulates the     *)
(* side energy in f64.  The model computes the same quantities as exact    *)
(* rationals: a normalised sample is the integer numerator over the        *)
(* divisor of its encoding, the energy sum is an exact natural number      *)
(* (in limbs, since TLC integers are 32 bits wide), and the thresholds     *)
(* 10f32.powf(-60.0 / 20.0) are 1/1000.  The sample values the model       *)
(* draws keep every compared quantity further from its threshold than      *)
(* the f32/f64 rounding error, so each comparison has the code's outcome.  *)
(***************************************************************************)
EXTENDS Integers, Naturals, Sequences, FiniteSets, TLC

\* ------------------------------------------------------------------ bounds
\* longest leading run of quiet pairs in a generated stream
MaxLead == 1
\* longest closing run of pairs in a generated stream
MaxTail == 2
\* sample rate of the generated assets, in Hz
SampleRate == 1

\* ------------------------------------------------- exact natural numbers
\* little-endian limbs in base LimbBase, without leading zero limbs
LimbBase == 10000

RECURSIVE NatToBig(_)
NatToBig(n) == IF n = 0 THEN <<>> ELSE <<n % LimbBase>> \o NatToBig(n \div LimbBase)

RECURSIVE BigAddC(_, _, _)
BigAddC(a, b, c) ==
    IF a = <<>> /\ b = <<>>
    THEN IF c = 0 THEN <<>> ELSE <<c>>
    ELSE LET x == (IF a = <<>> THEN 0 ELSE Head(a))
                  + (IF b = <<>> THEN 0 ELSE Head(b)) + c
         IN  <<x % LimbBase>>
             \o BigAddC(IF a = <<>> THEN <<>> ELSE Tail(a),
                        IF b = <<>> THEN <<>> ELSE Tail(b),
                        x \div LimbBase)

BigAdd(a, b) == BigAddC(a, b, 0)

RECURSIVE BigMulLimb(_, _, _)
BigMulLimb(a, k, c) ==
    IF a = <<>>
    THEN IF c = 0 THEN <<>> ELSE <<c>>
    ELSE LET x == Head(a) * k + c
         IN  <<x % LimbBase>> \o BigMulLimb(Tail(a), k, x \div LimbBase)

RECURSIVE BigMul(_, _)
BigMul(a, b) ==
    IF a = <<>> \/ b = <<>>
    THEN <<>>
    ELSE LET rest == BigMul(a, Tail(b))
         IN  BigAdd(BigMulLimb(a, Head(b), 0),
                    IF rest = <<>> THEN <<>> ELSE <<0>> \o rest)

RECURSIVE BigLess(_, _)
BigLess(a, b) ==
    IF Len(a) # Len(b)
    THEN Len(a) < Len(b)
    ELSE IF a = <<>>
         THEN FALSE
         ELSE LET n == Len(a)
              IN  IF a[n] # b[n]
                  THEN a[n] < b[n]
                  ELSE BigLess(SubSeq(a, 1, n - 1), SubSeq(b, 1, n - 1))

Abs(x) == IF x < 0 THEN -x ELSE x

\* ------------------------------------------------------------- encodings
SampleFormats == {"Int", "Float"}
BitDepths == {8, 16, 24, 32}

\* a float sample x is held as the integer x * FloatUnit
FloatUnit == 4096

\* what the decoder yields for one sample: its raw value, or an error
Sample(v) == [ok |-> TRUE, v |-> v]
DecodeErr == [ok |-> FALSE, v |-> 0]

\* to_f32 with a decode failure replaced by a non-zero default
to_f32_ErrAsLoud(format, bits, sample) ==
    LET s == IF sample.ok THEN sample.v
             ELSE IF format = "Float" THEN FloatUnit ELSE 32767
    IN  IF format = "Float" THEN s
        ELSE IF bits \in {16, 24, 32} THEN s
        ELSE 0

\* to_f32, numerator: the sample with a decode failure replaced by 0, and
\* 0.0 for an integer depth the closure has no arm for
to_f32(format, bits, sample) ==
    LET s == IF sample.ok THEN sample.v ELSE 0
    IN  IF format = "Float" THEN s
        ELSE IF bits \in {16, 24, 32} THEN s
        ELSE 0

\* to_f32, divisor: i16::MAX, 2^23 - 1, and i32::MAX as f32 (= 2^31)
Divisor(format, bits) ==
    IF format = "Float" THEN NatToBig(FloatUnit)
    ELSE IF bits = 16 THEN NatToBig(32767)
    ELSE IF bits = 24 THEN NatToBig(8388607)
    ELSE IF bits = 32 THEN BigMul(NatToBig(65536), NatToBig(32768))
    ELSE NatToBig(1)

\* 10f32.powf(-60.0 / 20.0) as the ratio 1 / ThresholdInv
ThresholdInv == 1000

\* x.abs() > silence_threshold, for x = num / Divisor
AboveSilence(format, bits, num) ==
    BigLess(Divisor(format, bits), BigMulLimb(NatToBig(Abs(num)), ThresholdInv, 0))

\* max_analyze_samples = 10 * sample_rate
max_analyze_samples(sample_rate) == 10 * sample_rate

\* side_rms < mono_diff_threshold, for side_rms = sqrt(sum / count) and
\* sum in units of 1 / Divisor^2
RmsBelowThreshold(format, bits, sum, count) ==
    BigLess(BigMul(sum, NatToBig(ThresholdInv * ThresholdInv)),
            BigMul(NatToBig(count),
                   BigMul(Divisor(format, bits), Divisor(format, bits))))

\* ------------------------------------------------------- generated assets
\* raw sample values: the largest value not above the silence threshold,
\* the smallest value above it, and a value near -20 dBFS
Quiet(format, bits) ==
    IF format = "Float" THEN 4
    ELSE IF bits = 16 THEN 32
    ELSE IF bits = 24 THEN 8388
    ELSE IF bits = 32 THEN 2147483
    ELSE 0

Loud(format, bits) ==
    IF format = "Float" THEN 5
    ELSE IF bits = 16 THEN 33
    ELSE IF bits = 24 THEN 8389
    ELSE IF bits = 32 THEN 2147484
    ELSE 1

Big(format, bits) ==
    IF format = "Float" THEN 410
    ELSE IF bits = 16 THEN 3277
    ELSE IF bits = 24 THEN 838861
    ELSE IF bits = 32 THEN 214748365
    ELSE 13

\* n copies of the frame <<l, r>>, interleaved
Rep(p, n) == [i \in 1..(2 * n) |-> Sample(IF i % 2 = 1 THEN p[1] ELSE p[2])]

LeadPairs(f, b) == {<<0, 0>>, <<Quiet(f, b), -Quiet(f, b)>>}

BodyPairs(f, b) == {<<Big(f, b), Big(f, b)>>, <<Big(f, b), -Big(f, b)>>,
                    <<Loud(f, b), 0>>, <<Quiet(f, b), -Quiet(f, b)>>}

TailPairs(f, b) == {<<0, 0>>, <<Big(f, b), Big(f, b)>>, <<Big(f, b), -Big(f, b)>>}

\* run lengths of the body: none, one pair, one short of the analysis cap,
\* exactly the cap
BodyRuns == {0, 1, max_analyze_samples(SampleRate) - 1, max_analyze_samples(SampleRate)}

\* what follows the last whole run: nothing, a dangling channel-0 sample,
\* a dangling undecodable sample, or a frame whose second sample is undecodable
Endings(f, b) == {<<>>, <<Sample(Loud(f, b))>>, <<DecodeErr>>,
                  <<Sample(Big(f, b)), DecodeErr>>}

Streams(f, b) ==
    {Rep(p1, n1) \o Rep(p2, n2) \o Rep(p3, n3) \o e :
        p1 \in LeadPairs(f, b), n1 \in 0..MaxLead,
        p2 \in BodyPairs(f, b), n2 \in BodyRuns,
        p3 \in TailPairs(f, b), n3 \in 0..MaxTail,
        e \in Endings(f, b)}

\* the streams of the assets whose samples no branch reads (1 and 3+ channels)
PlainStreams(f, b) ==
    {Rep(p2, n2) \o e : p2 \in BodyPairs(f, b), n2 \in BodyRuns, e \in Endings(f, b)}

ChannelCounts == {1, 2, 3}

\* hound::WavSpec
WavSpecs ==
    [channels : ChannelCounts, sample_rate : {SampleRate},
     bits_per_sample : BitDepths, sample_format : SampleFormats]

\* a file: its header and its sample stream; finalized is FALSE while a
\* WavWriter has the file open and its header lengths are not yet written
WavFiles ==
    UNION {[spec : {sp},
            data : IF sp.channels = 2
                   THEN Streams(sp.sample_format, sp.bits_per_sample)
                   ELSE PlainStreams(sp.sample_format, sp.bits_per_sample),
            finalized : {TRUE}] : sp \in WavSpecs}

\* ------------------------------------------------------------ file system
input_path == "in/a.wav"
mono_dir == "in/mono"
stereo_dir == "in/stereo"
multichannel_dir == "in/multichannel"
mono_output_path == "in/mono/a.wav"
stereo_output_path == "in/stereo/a.wav"
multichannel_output_path == "in/multichannel/a.wav"

Dirs == {mono_dir, stereo_dir, multichannel_dir}
Paths == {input_path, mono_output_path, stereo_output_path, multichannel_output_path}

OutputPath(dir) ==
    IF dir = mono_dir THEN mono_output_path
    ELSE IF dir = stereo_dir THEN stereo_output_path
    ELSE multichannel_output_path

\* ------------------------------------------------------------------ state
VARIABLES
    fs,               \* the files that exist: path -> content
    dirs,             \* the routing directories that exist
    orig,             \* the asset as it was at input_path before the call
    path_ok,          \* input_path has a parent and a file name
    pc,               \* position of the call
    result,           \* what process_wav_file returned
    spec,             \* process_wav_file: spec, read from the header
    route,            \* the directory a pass-through branch copies into
    stereo_type,      \* is_dual_mono's result
    dm_pos,           \* is_dual_mono: samples consumed from its reader
    is_started,       \* is_dual_mono: is_started
    silence_samples,  \* is_dual_mono: silence_samples
    side_energy_sum,  \* is_dual_mono: side_energy_sum
    analyzed_count,   \* is_dual_mono: analyzed_count
    ex_pos,           \* extract_left_channel: samples consumed from its reader
    calls             \* the functions and constructors called so far

call_vars == <<fs, dirs, orig, path_ok, pc, result, spec, route, stereo_type,
               dm_pos, is_started, silence_samples, side_energy_sum,
               analyzed_count, ex_pos, calls>>

dm_vars == <<dm_pos, is_started, silence_samples, side_energy_sum, analyzed_count>>

\* the state of the specifications of several calls on one file system
\* (SpecConc, SpecRerun) and of the task queue of the window (SpecGui)
VARIABLES
    c_fs,             \* the directory entries: path -> index into c_inodes
    c_inodes,         \* the files, linked or still held open: their content
    c_dirs,           \* the directories that exist
    c_orig,           \* call -> the asset at its input path before any call
    c_proc,           \* call -> its input path, position and locals
    g_tasks,          \* MyApp::tasks: the status of every task, in push order
    g_handed,         \* task -> how often it was passed to process_wav_file
    g_app_state,      \* MyApp::app_state
    g_workers,        \* the threads spawned so far: position and idx of each
    g_ui,             \* update: position, and the files dropped for this call
    g_repaint         \* a repaint has been requested and not yet served

conc_vars == <<c_fs, c_inodes, c_dirs, c_orig, c_proc>>
gui_vars == <<g_tasks, g_handed, g_app_state, g_workers, g_ui, g_repaint>>
aux_vars == <<conc_vars, gui_vars>>
vars == <<call_vars, aux_vars>>

\* the values conc_vars have in the specifications of a single call
ConcIdle ==
    /\ c_fs = <<>>
    /\ c_inodes = <<>>
    /\ c_dirs = {}
    /\ c_orig = <<>>
    /\ c_proc = <<>>

\* the values gui_vars have in the specifications without the window
GuiIdle ==
    /\ g_tasks = <<>>
    /\ g_handed = <<>>
    /\ g_app_state = "Idle"
    /\ g_workers = <<>>
    /\ g_ui = [pc |-> "idle", dropped |-> 0]
    /\ g_repaint = FALSE

None == "None"

\* spec before the header has been read
NoSpec == [channels |-> 0, sample_rate |-> 0, bits_per_sample |-> 0,
           sample_format |-> None]

NoResult == [kind |-> None]
Ok(msg) == [kind |-> "Ok", msg |-> msg]
Err(e) == [kind |-> "Err", err |-> e]

Init ==
    /\ orig \in WavFiles
    /\ path_ok \in BOOLEAN
    /\ fs = [p \in {input_path} |-> orig]
    /\ dirs = {}
    /\ pc = "start"
    /\ result = NoResult
    /\ spec = NoSpec
    /\ route = None
    /\ stereo_type = None
    /\ dm_pos = 0
    /\ is_started = FALSE
    /\ silence_samples = 0
    /\ side_energy_sum = <<>>
    /\ analyzed_count = 0
    /\ ex_pos = 0
    /\ calls = {}
    /\ ConcIdle
    /\ GuiIdle

\* return from process_wav_file
Return(r) ==
    /\ pc' = "done"
    /\ result' = r

\* fs::copy / WavWriter output: the file at path p becomes content
WriteFile(f, p, content) ==
    [q \in (DOMAIN f) \cup {p} |-> IF q = p THEN content ELSE f[q]]

\* fs::remove_file
RemoveFile(f, p) == [q \in (DOMAIN f) \ {p} |-> f[q]]

\* ------------------------------------------------ process_wav_file, entry
\* parent_dir, file_name and the output paths
PathCheck ==
    /\ pc = "start"
    /\ IF path_ok
       THEN pc' = "open" /\ UNCHANGED result
       ELSE Return(Err("PathFailure"))
    /\ UNCHANGED <<fs, dirs, orig, path_ok, spec, route, stereo_type, dm_vars,
                   ex_pos, calls>>
    /\ UNCHANGED aux_vars

\* let reader = WavReader::open(input_path)?; let spec = reader.spec();
OpenInput ==
    /\ pc = "open"
    /\ \E ok \in BOOLEAN :
          IF ok
          THEN /\ spec' = fs[input_path].spec
               /\ pc' = "match"
               /\ UNCHANGED result
          ELSE /\ Return(Err("UnreadableContainer"))
               /\ UNCHANGED spec
    /\ UNCHANGED <<fs, dirs, orig, path_ok, route, stereo_type, dm_vars, ex_pos,
                   calls>>
    /\ UNCHANGED aux_vars

\* MatchChannels with the mono directory created before the classifier runs
MatchChannels_EagerDir ==
    /\ pc = "match"
    /\ IF spec.channels = 1
       THEN route' = mono_dir /\ pc' = "create_dir" /\ UNCHANGED <<calls, dirs>>
       ELSE IF spec.channels = 2
       THEN /\ pc' = "dm_open"
            /\ calls' = calls \cup {"is_dual_mono"}
            /\ dirs' = dirs \cup {mono_dir}
            /\ UNCHANGED route
       ELSE route' = multichannel_dir /\ pc' = "create_dir" /\ UNCHANGED <<calls, dirs>>
    /\ UNCHANGED <<fs, orig, path_ok, result, spec, stereo_type, dm_vars, ex_pos>>
    /\ UNCHANGED aux_vars

\* MatchChannels with 1-channel input sent through the classifier
MatchChannels_ClassifyMono ==
    /\ pc = "match"
    /\ IF spec.channels \in {1, 2}
       THEN /\ pc' = "dm_open"
            /\ calls' = calls \cup {"is_dual_mono"}
            /\ UNCHANGED route
       ELSE route' = multichannel_dir /\ pc' = "create_dir" /\ UNCHANGED calls
    /\ UNCHANGED <<fs, dirs, orig, path_ok, result, spec, stereo_type, dm_vars,
                   ex_pos>>
    /\ UNCHANGED aux_vars

\* MatchChannels with only 1-channel input passed through unanalysed
MatchChannels_ClassifyMulti ==
    /\ pc = "match"
    /\ IF spec.channels = 1
       THEN route' = mono_dir /\ pc' = "create_dir" /\ UNCHANGED calls
       ELSE /\ pc' = "dm_open"
            /\ calls' = calls \cup {"is_dual_mono"}
            /\ UNCHANGED route
    /\ UNCHANGED <<fs, dirs, orig, path_ok, result, spec, stereo_type, dm_vars,
                   ex_pos>>
    /\ UNCHANGED aux_vars

\* match spec.channels { 1 => .., 2 => .., _ => .. }
MatchChannels ==
    /\ pc = "match"
    /\ IF spec.channels = 1
       THEN route' = mono_dir /\ pc' = "create_dir" /\ UNCHANGED calls
       ELSE IF spec.channels = 2
       THEN /\ pc' = "dm_open"
            /\ calls' = calls \cup {"is_dual_mono"}
            /\ UNCHANGED route
       ELSE route' = multichannel_dir /\ pc' = "create_dir" /\ UNCHANGED calls
    /\ UNCHANGED <<fs, dirs, orig, path_ok, result, spec, stereo_type, dm_vars,
                   ex_pos>>
    /\ UNCHANGED aux_vars

\* ------------------------------------- pass-through: 1ch, TrueStereo, 3+ch
\* fs::create_dir_all(&dir)?
RouteCreateDir ==
    /\ pc = "create_dir"
    /\ \E ok \in BOOLEAN :
          IF ok
          THEN dirs' = dirs \cup {route} /\ pc' = "copy" /\ UNCHANGED result
          ELSE Return(Err("Io")) /\ UNCHANGED dirs
    /\ UNCHANGED <<fs, orig, path_ok, spec, route, stereo_type, dm_vars, ex_pos,
                   calls>>
    /\ UNCHANGED aux_vars

\* fs::copy(input_path, output_path)?; a failed copy may leave a truncated file
RouteCopy ==
    /\ pc = "copy"
    /\ \E ok \in BOOLEAN :
          IF ok
          THEN /\ fs' = WriteFile(fs, OutputPath(route), fs[input_path])
               /\ pc' = "remove"
               /\ UNCHANGED result
          ELSE /\ \E partial \in BOOLEAN :
                     fs' = IF partial
                           THEN WriteFile(fs, OutputPath(route),
                                          [fs[input_path] EXCEPT !.data = <<>>,
                                                                 !.finalized = FALSE])
                           ELSE fs
               /\ Return(Err("Io"))
    /\ UNCHANGED <<dirs, orig, path_ok, spec, route, stereo_type, dm_vars, ex_pos,
                   calls>>
    /\ UNCHANGED aux_vars

\* fs::remove_file(input_path)?; Ok(format!(..))
RouteRemove ==
    /\ pc = "remove"
    /\ \E ok \in BOOLEAN :
          IF ok
          THEN fs' = RemoveFile(fs, input_path) /\ Return(Ok(route))
          ELSE Return(Err("Io")) /\ UNCHANGED fs
    /\ UNCHANGED <<dirs, orig, path_ok, spec, route, stereo_type, dm_vars, ex_pos,
                   calls>>
    /\ UNCHANGED aux_vars

\* ----------------------------------------------------------- is_dual_mono
\* the iterator match: Float/32 and every Int depth get a sample iterator
HasSampleIterator(format, bits) ==
    \/ format = "Float" /\ bits = 32
    \/ format = "Int"

\* the loop without its break
CapReached_Never(count, sample_rate) == FALSE

\* CapReached with > in place of >=
CapReached_OffByOne(count, sample_rate) == count > max_analyze_samples(sample_rate)

\* if analyzed_count >= max_analyze_samples { break; }
CapReached(count, sample_rate) == count >= max_analyze_samples(sample_rate)

\* Verdict without the analyzed_count == 0 return: 0.0 / 0.0 is NaN, and
\* NaN < mono_diff_threshold is false
Verdict_NoZeroGuard(format, bits, sum, count) ==
    IF count # 0 /\ RmsBelowThreshold(format, bits, sum, count) THEN "DualMono"
    ELSE "TrueStereo"

\* the silence skip applied to every quiet pair, not only the leading ones
SkipsPair_AnyQuiet(started, loud) == ~loud

\* if !is_started { if l.abs() > .. || r.abs() > .. { is_started = true }
\* else { continue } }: the pair is skipped
SkipsPair(started, loud) == ~started /\ ~loud

\* the verdict computed after the loop
Verdict(format, bits, sum, count) ==
    IF count = 0 THEN "DualMono"
    ELSE IF RmsBelowThreshold(format, bits, sum, count) THEN "DualMono"
    ELSE "TrueStereo"

\* let mut reader = WavReader::open(path)?; if spec.channels != 2 { return .. }
DmOpen ==
    /\ pc = "dm_open"
    /\ \E ok \in BOOLEAN :
          IF ok
          THEN /\ IF fs[input_path].spec.channels # 2
                  THEN stereo_type' = "DualMono" /\ pc' = "match_type"
                  ELSE pc' = "dm_samples" /\ UNCHANGED stereo_type
               /\ UNCHANGED result
          ELSE Return(Err("UnreadableContainer")) /\ UNCHANGED stereo_type
    /\ UNCHANGED <<fs, dirs, orig, path_ok, spec, route, dm_vars, ex_pos, calls>>
    /\ UNCHANGED aux_vars

\* let mut samples = match (format, bits) { .. _ => return Err(..) }
DmSamples ==
    /\ pc = "dm_samples"
    /\ LET sp == fs[input_path].spec
       IN  IF HasSampleIterator(sp.sample_format, sp.bits_per_sample)
           THEN pc' = "dm_loop" /\ UNCHANGED result
           ELSE Return(Err("UnsupportedEncoding"))
    /\ UNCHANGED <<fs, dirs, orig, path_ok, spec, route, stereo_type, dm_vars,
                   ex_pos, calls>>
    /\ UNCHANGED aux_vars

\* one evaluation of the while-let condition and, if it matches, of the body
DmLoop ==
    /\ pc = "dm_loop"
    /\ LET sp == fs[input_path].spec
           data == fs[input_path].data
           f == sp.sample_format
           b == sp.bits_per_sample
       IN  IF dm_pos + 2 > Len(data)
           THEN \* (samples.next(), samples.next()) is not (Some, Some)
                /\ dm_pos' = Len(data)
                /\ pc' = "dm_verdict"
                /\ UNCHANGED <<is_started, silence_samples, side_energy_sum,
                               analyzed_count>>
           ELSE LET l == to_f32(f, b, data[dm_pos + 1])
                    r == to_f32(f, b, data[dm_pos + 2])
                    starts == AboveSilence(f, b, l) \/ AboveSilence(f, b, r)
                    side == l - r
                IN  /\ dm_pos' = dm_pos + 2
                    /\ silence_samples' = IF is_started THEN silence_samples
                                          ELSE silence_samples + 1
                    /\ is_started' = (is_started \/ starts)
                    /\ IF ~SkipsPair(is_started, starts)
                       THEN /\ side_energy_sum' =
                                  BigAdd(side_energy_sum,
                                         BigMul(NatToBig(Abs(side)), NatToBig(Abs(side))))
                            /\ analyzed_count' = analyzed_count + 1
                            /\ pc' = IF CapReached(analyzed_count + 1, sp.sample_rate)
                                     THEN "dm_verdict" ELSE "dm_loop"
                       ELSE \* continue
                            /\ UNCHANGED <<side_energy_sum, analyzed_count>>
                            /\ pc' = "dm_loop"
    /\ UNCHANGED <<fs, dirs, orig, path_ok, result, spec, route, stereo_type,
                   ex_pos, calls>>
    /\ UNCHANGED aux_vars

\* if analyzed_count == 0 { .. } let side_rms = ..; if side_rms < .. { .. }
DmVerdict ==
    /\ pc = "dm_verdict"
    /\ LET sp == fs[input_path].spec
       IN  stereo_type' = Verdict(sp.sample_format, sp.bits_per_sample,
                                  side_energy_sum, analyzed_count)
    /\ pc' = "match_type"
    /\ UNCHANGED <<fs, dirs, orig, path_ok, result, spec, route, dm_vars, ex_pos,
                   calls>>
    /\ UNCHANGED aux_vars

\* ------------------------------------------- process_wav_file, 2ch branch
\* MatchStereoType with the two arms exchanged
MatchStereoType_Swapped ==
    /\ pc = "match_type"
    /\ IF stereo_type = "DualMono"
       THEN route' = stereo_dir /\ pc' = "create_dir"
       ELSE pc' = "dual_create_dir" /\ UNCHANGED route
    /\ UNCHANGED <<fs, dirs, orig, path_ok, result, spec, stereo_type, dm_vars,
                   ex_pos, calls>>
    /\ UNCHANGED aux_vars

\* match stereo_type { TrueStereo => .., DualMono => .. }
MatchStereoType ==
    /\ pc = "match_type"
    /\ IF stereo_type = "TrueStereo"
       THEN route' = stereo_dir /\ pc' = "create_dir"
       ELSE pc' = "dual_create_dir" /\ UNCHANGED route
    /\ UNCHANGED <<fs, dirs, orig, path_ok, result, spec, stereo_type, dm_vars,
                   ex_pos, calls>>
    /\ UNCHANGED aux_vars

\* fs::create_dir_all(&mono_dir)?
DualCreateDir ==
    /\ pc = "dual_create_dir"
    /\ \E ok \in BOOLEAN :
          IF ok
          THEN dirs' = dirs \cup {mono_dir} /\ pc' = "dual_writer" /\ UNCHANGED result
          ELSE Return(Err("Io")) /\ UNCHANGED dirs
    /\ UNCHANGED <<fs, orig, path_ok, spec, route, stereo_type, dm_vars, ex_pos,
                   calls>>
    /\ UNCHANGED aux_vars

\* mono_spec.channels = 1; let writer = WavWriter::create(&mono_output_path, mono_spec)?
DualCreateWriter ==
    /\ pc = "dual_writer"
    /\ \E ok \in BOOLEAN :
          IF ok
          THEN LET mono_spec == [spec EXCEPT !.channels = 1]
               IN  /\ fs' = WriteFile(fs, mono_output_path,
                                      [spec |-> mono_spec, data |-> <<>>,
                                       finalized |-> FALSE])
                   /\ calls' = calls \cup {"WavWriter::create"}
                   /\ pc' = "dual_reopen"
                   /\ UNCHANGED result
          ELSE Return(Err("WriteFailure")) /\ UNCHANGED <<fs, calls>>
    /\ UNCHANGED <<dirs, orig, path_ok, spec, route, stereo_type, dm_vars, ex_pos>>
    /\ UNCHANGED aux_vars

\* extraction continuing from the classifier's read position
reader_shared_pos == dm_pos

\* the read position of reader_for_extract: the start of the data
reader_for_extract_pos == 0

\* let reader_for_extract = WavReader::open(input_path)?
DualReopen ==
    /\ pc = "dual_reopen"
    /\ \E ok \in BOOLEAN :
          IF ok
          THEN ex_pos' = reader_for_extract_pos /\ pc' = "dual_dispatch"
               /\ UNCHANGED result
          ELSE Return(Err("UnreadableContainer")) /\ UNCHANGED ex_pos
    /\ UNCHANGED <<fs, dirs, orig, path_ok, spec, route, stereo_type, dm_vars,
                   calls>>
    /\ UNCHANGED aux_vars

\* the sample types extract_left_channel is instantiated for
HasExtractor(format, bits) ==
    \/ format = "Int" /\ bits \in {8, 16, 24, 32}
    \/ format = "Float" /\ bits = 32

\* match (spec.sample_format, spec.bits_per_sample) { .. _ => unreachable!() }
DualDispatch ==
    /\ pc = "dual_dispatch"
    /\ IF HasExtractor(spec.sample_format, spec.bits_per_sample)
       THEN /\ calls' = calls \cup {"extract_left_channel"}
            /\ pc' = "ex_loop"
            /\ UNCHANGED result
       ELSE Return(Err("Panic")) /\ UNCHANGED calls
    /\ UNCHANGED <<fs, dirs, orig, path_ok, spec, route, stereo_type, dm_vars,
                   ex_pos>>
    /\ UNCHANGED aux_vars

\* --------------------------------------------------- extract_left_channel
\* the loop entered only while a whole frame remains
StreamExhausted_WholeFrames(pos, channels, len) == pos + channels > len

\* while let Some(l_res) = samples.next(): the iterator yields None
StreamExhausted(pos, channels, len) == pos >= len

\* one evaluation of the while-let condition and, if it matches, of the body
ExLoop ==
    /\ pc = "ex_loop"
    /\ LET data == fs[input_path].data
           channels == spec.channels
       IN  IF StreamExhausted(ex_pos, channels, Len(data))
           THEN pc' = "ex_finalize" /\ UNCHANGED <<fs, result, ex_pos>>
           ELSE LET l_res == data[ex_pos + 1]
                IN  IF ~l_res.ok
                    THEN \* let l = l_res?
                         Return(Err("Decode")) /\ UNCHANGED <<fs, ex_pos>>
                    ELSE \E ok \in BOOLEAN :
                            IF ok
                            THEN /\ fs' = [fs EXCEPT ![mono_output_path].data =
                                                         Append(@, l_res)]
                                 /\ ex_pos' = IF ex_pos + channels > Len(data)
                                              THEN Len(data)
                                              ELSE ex_pos + channels
                                 /\ pc' = "ex_loop"
                                 /\ UNCHANGED result
                            ELSE \* writer.write_sample(l)?
                                 Return(Err("WriteFailure")) /\ UNCHANGED <<fs, ex_pos>>
    /\ UNCHANGED <<dirs, orig, path_ok, spec, route, stereo_type, dm_vars, calls>>
    /\ UNCHANGED aux_vars

\* writer.finalize()?; Ok(()) and process_wav_file's Ok(format!(..))
ExFinalize ==
    /\ pc = "ex_finalize"
    /\ \E ok \in BOOLEAN :
          IF ok
          THEN /\ fs' = [fs EXCEPT ![mono_output_path].finalized = TRUE]
               /\ Return(Ok("extracted"))
          ELSE Return(Err("WriteFailure")) /\ UNCHANGED fs
    /\ UNCHANGED <<dirs, orig, path_ok, spec, route, stereo_type, dm_vars, ex_pos,
                   calls>>
    /\ UNCHANGED aux_vars

\* ----------------------------------------------------------- specification
Next ==
    \/ PathCheck
    \/ OpenInput
    \/ MatchChannels
    \/ RouteCreateDir
    \/ RouteCopy
    \/ RouteRemove
    \/ DmOpen
    \/ DmSamples
    \/ DmLoop
    \/ DmVerdict
    \/ MatchStereoType
    \/ DualCreateDir
    \/ DualCreateWriter
    \/ DualReopen
    \/ DualDispatch
    \/ ExLoop
    \/ ExFinalize

Spec == Init /\ [][Next]_vars

\* ------------------------------------------------------------ properties
\* the (format, depth) combinations the Sample Normalizer defines
NormalizerDefines(format, bits) ==
    \/ format = "Int" /\ bits \in {16, 24, 32}
    \/ format = "Float" /\ bits = 32

OrigFormat == orig.spec.sample_format
OrigBits == orig.spec.bits_per_sample

Done == pc = "done"
Succeeded == pc = "done" /\ result.kind = "Ok"
Failed == pc = "done" /\ result.kind = "Err"
FailedWith(e) == Failed /\ result.err = e

\* the file system as it was before the call
InitialFs == [p \in {input_path} |-> orig]

\* C1: a 2-channel asset whose (format, depth) is not one the Sample
\* Normalizer defines never gets a DualMono or TrueStereo verdict, and the
\* call on it ends in an error.
C1_UnsupportedNeverClassified ==
    (orig.spec.channels = 2 /\ ~NormalizerDefines(OrigFormat, OrigBits)) =>
        /\ stereo_type = None
        /\ (Done => result.kind = "Err")

\* C2: when process_wav_file fails on a 2-channel asset with the
\* unsupported-encoding error, no directory has been created, no output file
\* exists and the original is at input_path with its content unmodified.
C2_UnsupportedLeavesFsUnchanged ==
    (orig.spec.channels = 2 /\ FailedWith("UnsupportedEncoding")) =>
        /\ dirs = {}
        /\ fs = InitialFs

C2_Witness ==
    /\ orig.spec.channels = 2
    /\ FailedWith("UnsupportedEncoding")
    /\ Len(orig.data) > 0

\* C3: if a step fails after the output container has been created, the call
\* returns an error, no file is left at the mono output path and the
\* original is untouched.
C3_NoPartialOutputOnFailure ==
    (Failed /\ "WavWriter::create" \in calls
            /\ NormalizerDefines(OrigFormat, OrigBits)) =>
        /\ mono_output_path \notin DOMAIN fs
        /\ input_path \in DOMAIN fs
        /\ fs[input_path] = orig

\* every frame's channel-0 sample of a 2-channel stream, in order
Channel0(data) == [i \in 1..((Len(data) + 1) \div 2) |-> data[2 * i - 1]]

\* C4: after a successful call on a 2-channel asset classified DualMono the
\* output has channel_count 1, the input's sample_rate, bit_depth and
\* sample_format, and exactly the channel-0 raw samples of all frames of the
\* input from the start of data.
C4_ReducedOutputIsChannel0 ==
    (Succeeded /\ orig.spec.channels = 2 /\ stereo_type = "DualMono") =>
        /\ mono_output_path \in DOMAIN fs
        /\ fs[mono_output_path].spec = [orig.spec EXCEPT !.channels = 1]
        /\ fs[mono_output_path].data = Channel0(orig.data)
        /\ fs[mono_output_path].finalized

\* a reduction where the classifier skipped leading silence and stopped at
\* its cap before the end of the stream
C4_Witness ==
    /\ Succeeded
    /\ orig.spec.channels = 2
    /\ stereo_type = "DualMono"
    /\ silence_samples > 1
    /\ analyzed_count = max_analyze_samples(orig.spec.sample_rate)
    /\ dm_pos < Len(orig.data)
    /\ fs[mono_output_path].data = Channel0(orig.data)

\* C5: after every successful call the input is absent from input_path and
\* exactly one routed file exists; in particular the 2-channel original of
\* a DualMono asset is gone.
C5_OriginalSuperseded ==
    (Succeeded /\ NormalizerDefines(OrigFormat, OrigBits)) =>
        /\ input_path \notin DOMAIN fs
        /\ Cardinality(DOMAIN fs) = 1

\* C6: for a 1-channel input neither the classifier nor the extractor is
\* ever invoked, and on success the file in mono/ is byte-identical to the
\* input.
C6_MonoPassThrough ==
    orig.spec.channels = 1 =>
        /\ calls = {}
        /\ stereo_type = None
        /\ (Succeeded => /\ mono_output_path \in DOMAIN fs
                         /\ fs[mono_output_path] = orig)

C6_Witness ==
    /\ orig.spec.channels = 1
    /\ Succeeded
    /\ fs[mono_output_path] = orig
    /\ Len(orig.data) > 0

\* C7: for an input with 3 or more channels neither the classifier nor the
\* extractor is ever invoked, and on success the file in multichannel/ is
\* byte-identical to the input.
C7_MultichannelPassThrough ==
    orig.spec.channels >= 3 =>
        /\ calls = {}
        /\ stereo_type = None
        /\ (Succeeded => /\ multichannel_output_path \in DOMAIN fs
                         /\ fs[multichannel_output_path] = orig)

C7_Witness ==
    /\ orig.spec.channels >= 3
    /\ Succeeded
    /\ fs[multichannel_output_path] = orig
    /\ Len(orig.data) > 0

\* C8: for a 2-channel asset a writer is created and the extractor runs only
\* after a DualMono verdict, and a successful call ran the extractor exactly
\* when the verdict is DualMono; after a TrueStereo verdict the file in
\* stereo/ is byte-identical to the input; no directory or output exists
\* before the verdict.
C8_ExtractorIffDualMono ==
    orig.spec.channels = 2 =>
        /\ (calls \cap {"WavWriter::create", "extract_left_channel"} # {}
                => stereo_type = "DualMono")
        /\ (Succeeded => ("extract_left_channel" \in calls <=> stereo_type = "DualMono"))
        /\ (stereo_type = "TrueStereo" => mono_output_path \notin DOMAIN fs)
        /\ (Succeeded /\ stereo_type = "TrueStereo"
                => /\ stereo_output_path \in DOMAIN fs
                   /\ fs[stereo_output_path] = orig)
        /\ (stereo_type = None => dirs = {} /\ fs = InitialFs)

C8_Witness ==
    /\ orig.spec.channels = 2
    /\ stereo_type = "TrueStereo"
    /\ Succeeded
    /\ fs[stereo_output_path] = orig

\* the normalised (L, R) pairs of a 2-channel stream; a trailing unpaired
\* sample belongs to no pair
NumPairs(data) == Len(data) \div 2
PairL(file, i) == to_f32(file.spec.sample_format, file.spec.bits_per_sample,
                         file.data[2 * i - 1])
PairR(file, i) == to_f32(file.spec.sample_format, file.spec.bits_per_sample,
                         file.data[2 * i])

\* both |L| and |R| of pair i are at most silence_threshold
SilentPair(file, i) ==
    /\ ~AboveSilence(file.spec.sample_format, file.spec.bits_per_sample, PairL(file, i))
    /\ ~AboveSilence(file.spec.sample_format, file.spec.bits_per_sample, PairR(file, i))

\* the pairs from the first one that is not silent on, up to the 10-second cap
AnalyzedPairs(file) ==
    LET loud == {j \in 1..NumPairs(file.data) : ~SilentPair(file, j)}
    IN  IF loud = {} THEN {}
        ELSE LET first == CHOOSE j \in loud : \A k \in loud : j <= k
             IN  {i \in first..NumPairs(file.data) :
                     i - first < max_analyze_samples(file.spec.sample_rate)}

\* the sum of (L - R)^2 over a set of pairs
RECURSIVE SideEnergy(_, _)
SideEnergy(file, pairs) ==
    IF pairs = {} THEN <<>>
    ELSE LET i == CHOOSE x \in pairs : TRUE
             side == Abs(PairL(file, i) - PairR(file, i))
         IN  BigAdd(BigMul(NatToBig(side), NatToBig(side)),
                    SideEnergy(file, pairs \ {i}))

ExpectedVerdict(file) ==
    LET pairs == AnalyzedPairs(file)
    IN  IF pairs = {}
           \/ RmsBelowThreshold(file.spec.sample_format, file.spec.bits_per_sample,
                                SideEnergy(file, pairs), Cardinality(pairs))
        THEN "DualMono"
        ELSE "TrueStereo"

AllPairsEqual(file) ==
    \A i \in 1..NumPairs(file.data) : PairL(file, i) = PairR(file, i)

AllPairsInverted(file) ==
    /\ NumPairs(file.data) > 0
    /\ \A i \in 1..NumPairs(file.data) :
          /\ PairR(file, i) = -PairL(file, i)
          /\ ~SilentPair(file, i)

\* C9: for a 2-channel asset in a supported encoding the verdict is DualMono
\* exactly when no pair is analysed or the RMS of L - R over the analysed
\* pairs (those after the leading silence, up to the cap) is below
\* mono_diff_threshold, and TrueStereo otherwise; L = R in every pair gives
\* DualMono, R = -L above the threshold in every pair gives TrueStereo.
\* Stated of the verdict as is_dual_mono returns it (pc = "match_type").
C9_VerdictIsSideRmsRule ==
    (orig.spec.channels = 2 /\ NormalizerDefines(OrigFormat, OrigBits)
                            /\ pc = "match_type") =>
        /\ stereo_type = ExpectedVerdict(orig)
        /\ (AllPairsEqual(orig) => stereo_type = "DualMono")
        /\ (AllPairsInverted(orig) => stereo_type = "TrueStereo")

\* a DualMono verdict over several analysed pairs with non-zero side energy,
\* after skipped leading silence
C9_Witness ==
    /\ pc = "match_type"
    /\ orig.spec.channels = 2
    /\ NormalizerDefines(OrigFormat, OrigBits)
    /\ stereo_type = "DualMono"
    /\ silence_samples > 1
    /\ analyzed_count > 1
    /\ side_energy_sum # <<>>

AllZero(data) == \A i \in 1..Len(data) : data[i].ok /\ data[i].v = 0

\* C10: a 2-channel asset in a supported encoding whose samples are all
\* zero, of any length, is classified DualMono, and no pair of it is ever
\* analysed.
C10_SilenceIsDualMono ==
    (orig.spec.channels = 2 /\ NormalizerDefines(OrigFormat, OrigBits)
                            /\ AllZero(orig.data)) =>
        /\ analyzed_count = 0
        /\ side_energy_sum = <<>>
        /\ stereo_type # "TrueStereo"
        /\ (pc \in {"match_type", "dual_create_dir"} => stereo_type = "DualMono")
        /\ pc # "create_dir"

C10_Witness ==
    /\ orig.spec.channels = 2
    /\ NormalizerDefines(OrigFormat, OrigBits)
    /\ AllZero(orig.data)
    /\ Len(orig.data) > 2
    /\ stereo_type = "DualMono"

\* the pairs the classifier has consumed, and those of them that are not silent
ConsumedPairs == dm_pos \div 2

\* the first of the pairs a..b that exceeds the threshold, 0 if none does
RECURSIVE FirstLoudIn(_, _, _)
FirstLoudIn(file, a, b) ==
    IF a > b THEN 0
    ELSE IF ~SilentPair(file, a) THEN a
    ELSE FirstLoudIn(file, a + 1, b)

FirstLoud == FirstLoudIn(orig, 1, ConsumedPairs)

\* the sum of (L - R)^2 over the pairs a..b
RECURSIVE SideEnergyOver(_, _, _)
SideEnergyOver(file, a, b) ==
    IF a > b THEN <<>>
    ELSE LET side == Abs(PairL(file, b) - PairR(file, b))
         IN  BigAdd(SideEnergyOver(file, a, b - 1),
                    BigMul(NatToBig(side), NatToBig(side)))

\* C13: in the classifier loop a pair is skipped exactly when it and all
\* pairs before it are silent: is_started holds exactly when some consumed
\* pair exceeds the threshold, and analyzed_count and, when the loop is
\* left, side_energy_sum cover exactly the consumed pairs from the first
\* such pair on, that pair and every later quiet pair included.
C13_SilenceSkipIsLeadingOnly ==
    (orig.spec.channels = 2 /\ pc \in {"dm_loop", "dm_verdict"}) =>
        LET first == FirstLoud
        IN  IF first = 0
            THEN /\ ~is_started
                 /\ analyzed_count = 0
                 /\ side_energy_sum = <<>>
                 /\ silence_samples = ConsumedPairs
            ELSE /\ is_started
                 /\ silence_samples = first
                 /\ analyzed_count = ConsumedPairs - first + 1
                 /\ pc = "dm_verdict" =>
                        side_energy_sum = SideEnergyOver(orig, first, ConsumedPairs)

\* after skipped leading silence, a silent pair has been analysed
C13_Witness ==
    /\ orig.spec.channels = 2
    /\ pc = "dm_loop"
    /\ is_started
    /\ silence_samples > 1
    /\ analyzed_count > 1
    /\ SilentPair(orig, ConsumedPairs)

\* C14: analyzed_count never exceeds 10 * sample_rate; the loop goes on only
\* below the cap and ends only at the cap or when no complete pair is left;
\* the pairs consumed are the skipped silent pairs plus the analysed ones.
C14_AnalysisIsCapped ==
    (orig.spec.channels = 2 /\ pc \in {"dm_loop", "dm_verdict"}) =>
        LET cap == 10 * orig.spec.sample_rate
            skipped == IF is_started THEN silence_samples - 1 ELSE silence_samples
        IN  /\ analyzed_count <= cap
            /\ (pc = "dm_loop" => analyzed_count < cap)
            /\ (pc = "dm_verdict" =>
                   analyzed_count = cap \/ dm_pos = Len(orig.data))
            /\ ConsumedPairs = skipped + analyzed_count
            /\ ConsumedPairs <= skipped + cap

\* the loop stopped at the cap, after skipped silence, before the stream's end
C14_Witness ==
    /\ orig.spec.channels = 2
    /\ pc = "dm_verdict"
    /\ analyzed_count = 10 * orig.spec.sample_rate
    /\ silence_samples > 1
    /\ dm_pos + 2 <= Len(orig.data)

\* ------------------------------------- decode failures at any position
\* longest stream of the assets of SpecDecode
MaxDecodeLen == 4

RECURSIVE SeqsUpTo(_, _)
SeqsUpTo(S, n) ==
    IF n = 0 THEN {<<>>}
    ELSE LET shorter == SeqsUpTo(S, n - 1)
         IN  shorter \cup {Append(q, x) : q \in shorter, x \in S}

DecodeSpecs ==
    {sp \in WavSpecs : sp.channels = 2
                       /\ NormalizerDefines(sp.sample_format, sp.bits_per_sample)}

DecodeFiles ==
    UNION {[spec : {sp},
            data : SeqsUpTo({Sample(0), Sample(Big(sp.sample_format, sp.bits_per_sample)),
                             Sample(-Big(sp.sample_format, sp.bits_per_sample)),
                             DecodeErr}, MaxDecodeLen),
            finalized : {TRUE}] : sp \in DecodeSpecs}

InitDecode ==
    /\ orig \in DecodeFiles
    /\ path_ok = TRUE
    /\ fs = [p \in {input_path} |-> orig]
    /\ dirs = {}
    /\ pc = "start"
    /\ result = NoResult
    /\ spec = NoSpec
    /\ route = None
    /\ stereo_type = None
    /\ dm_pos = 0
    /\ is_started = FALSE
    /\ silence_samples = 0
    /\ side_energy_sum = <<>>
    /\ analyzed_count = 0
    /\ ex_pos = 0
    /\ calls = {}
    /\ ConcIdle
    /\ GuiIdle

SpecDecode == InitDecode /\ [][Next]_vars

\* the file with every undecodable sample replaced by a sample of value 0
Zeroed(file) ==
    [file EXCEPT !.data = [i \in 1..Len(file.data) |->
                              IF file.data[i].ok THEN file.data[i] ELSE Sample(0)]]

\* C15: a decode failure on a sample, at any position, does not end the
\* classification with an error, and the verdict is the one of the same
\* stream with that sample equal to zero.
C15_DecodeFailureIsSilence ==
    /\ (pc = "match_type" => stereo_type = ExpectedVerdict(Zeroed(orig)))
    /\ (Failed /\ stereo_type = None =>
            result.err \in {"PathFailure", "UnreadableContainer", "UnsupportedEncoding"})
    /\ (pc = "dm_verdict" =>
            dm_pos = Len(orig.data)
            \/ analyzed_count = max_analyze_samples(orig.spec.sample_rate))

\* a verdict over a stream whose first sample is undecodable and whose later
\* pairs were analysed to the end
C15_Witness ==
    /\ pc = "match_type"
    /\ Len(orig.data) >= 4
    /\ ~orig.data[1].ok
    /\ orig.data[2].ok /\ orig.data[2].v # 0
    /\ dm_pos = Len(orig.data)
    /\ analyzed_count >= 2
    /\ stereo_type = "TrueStereo"

\* ----------------------------------- extract_left_channel on its own
\* longest stream and largest channel count of the assets of SpecExtract
MaxExtractLen == 6
MaxExtractChannels == 3

\* the stream whose i-th sample has the value i
Ramp(n) == [i \in 1..n |-> Sample(i)]

ExtractFiles ==
    [spec : [channels : 1..MaxExtractChannels, sample_rate : {SampleRate},
             bits_per_sample : {16, 32}, sample_format : {"Int"}],
     data : {Ramp(n) : n \in 0..MaxExtractLen},
     finalized : {TRUE}]

\* extract_left_channel called with a reader at the start of the input, a
\* writer on the empty output and the input's channel count
InitExtract ==
    /\ orig \in ExtractFiles
    /\ path_ok = TRUE
    /\ fs = [p \in {input_path, mono_output_path} |->
                IF p = input_path THEN orig
                ELSE [spec |-> [orig.spec EXCEPT !.channels = 1], data |-> <<>>,
                      finalized |-> FALSE]]
    /\ dirs = {mono_dir}
    /\ pc = "ex_loop"
    /\ result = NoResult
    /\ spec = orig.spec
    /\ route = None
    /\ stereo_type = "DualMono"
    /\ dm_pos = 0
    /\ is_started = FALSE
    /\ silence_samples = 0
    /\ side_energy_sum = <<>>
    /\ analyzed_count = 0
    /\ ex_pos = reader_for_extract_pos
    /\ calls = {"WavWriter::create", "extract_left_channel"}
    /\ ConcIdle
    /\ GuiIdle

NextExtract ==
    \/ ExLoop
    \/ ExFinalize

SpecExtract == InitExtract /\ [][NextExtract]_vars

\* C16: extract_left_channel on N decodable samples with channel count c
\* does not fail on a stream that ends mid-frame; its output holds the first
\* sample of every frame, the incomplete last one included: ceil(N / c)
\* samples, N / c when c divides N.
C16_MidFrameEndIsNotAnError ==
    LET n == Len(orig.data)
        c == orig.spec.channels
        frames == (n + c - 1) \div c
    IN  /\ (Failed => result.err = "WriteFailure")
        /\ (pc = "ex_finalize" \/ Succeeded =>
               /\ Len(fs[mono_output_path].data) = frames
               /\ \A i \in 1..frames :
                     fs[mono_output_path].data[i] = orig.data[(i - 1) * c + 1])
        /\ (Succeeded /\ n % c = 0 => Len(fs[mono_output_path].data) = n \div c)
        /\ (Succeeded => fs[mono_output_path].finalized)

C16_Witness ==
    /\ Succeeded
    /\ orig.spec.channels >= 2
    /\ Len(orig.data) % orig.spec.channels # 0
    /\ Len(orig.data) > orig.spec.channels
    /\ Len(fs[mono_output_path].data) = (Len(orig.data) \div orig.spec.channels) + 1

\* =================================== several calls on one file system
\* The calls of process_wav_file share nothing but the file system.  A file
\* is a directory entry (c_fs) naming a content (c_inodes); a reader or
\* writer holds the content it opened, whatever happens to the entry.  The
\* only failures are those the file system's state causes.

\* the values call_vars have in the specifications that do not use them
CallIdle ==
    /\ fs = <<>>
    /\ dirs = {}
    /\ orig = [spec |-> NoSpec, data |-> <<>>, finalized |-> TRUE]
    /\ path_ok = TRUE
    /\ pc = "idle"
    /\ result = NoResult
    /\ spec = NoSpec
    /\ route = None
    /\ stereo_type = None
    /\ dm_pos = 0
    /\ is_started = FALSE
    /\ silence_samples = 0
    /\ side_energy_sum = <<>>
    /\ analyzed_count = 0
    /\ ex_pos = 0
    /\ calls = {}

ProcIds == {1, 2}

\* input_path.parent(), input_path.file_name()
parent_dir(path) == SubSeq(path, 1, Len(path) - 1)
file_name(path) == path[Len(path)]

\* parent_dir.join("mono" | "stereo" | "multichannel")
OutputDir(path, sub) == parent_dir(path) \o <<sub>>

\* every call writing one fixed file name in its output directory
output_path_FixedName(path, sub) == OutputDir(path, sub) \o <<"out.wav">>

\* mono_dir.join(file_name), stereo_dir.join(file_name), ..
output_path(path, sub) == OutputDir(path, sub) \o <<file_name(path)>>

\* the writer's header left at the input's channel count
mono_spec_Unchanged(sp) == sp

\* let mut mono_spec = spec; mono_spec.channels = 1;
mono_spec(sp) == [sp EXCEPT !.channels = 1]

\* the assets of the calls: 1ch, 2ch with L = R, 2ch with L = -R, 3ch, all
\* 16-bit Int of amplitude v
ConcSpec(ch) == [channels |-> ch, sample_rate |-> SampleRate,
                 bits_per_sample |-> 16, sample_format |-> "Int"]
ConcFile(ch, vs) == [spec |-> ConcSpec(ch),
                     data |-> [i \in 1..Len(vs) |-> Sample(vs[i])],
                     finalized |-> TRUE]
ConcFiles(v) == {ConcFile(1, <<v, v + 1>>),
                 ConcFile(2, <<v, v, v + 1, v + 1>>),
                 ConcFile(2, <<v, -v>>),
                 ConcFile(3, <<v, v + 1, v + 2>>)}

\* the input paths of the two calls: the second is a sibling of the first,
\* or lies where the first writes a 1-channel output
PathA == <<"in", "a.wav">>
PathsB == {<<"in", "b.wav">>, output_path(PathA, "mono")}

\* a call before its first step
NewProc(path) ==
    [path |-> path, pc |-> "open", spec |-> NoSpec, route |-> None,
     stereo_type |-> None, dm_spec |-> NoSpec, rd |-> 0, dm_pos |-> 0,
     is_started |-> FALSE, side_energy_sum |-> <<>>, analyzed_count |-> 0,
     wr |-> 0, ex_rd |-> 0, ex_pos |-> 0, result |-> NoResult, calls |-> {},
     reads |-> {}, writes |-> {}]

\* every directory above path
Ancestors(path) == {SubSeq(path, 1, n) : n \in 1..(Len(path) - 1)}

InitConc ==
    /\ \E a \in ConcFiles(Big("Int", 16)), b \in ConcFiles(Loud("Int", 16)),
          pb \in PathsB :
          /\ c_orig = <<a, b>>
          /\ c_inodes = <<a, b>>
          /\ c_fs = [q \in {PathA, pb} |-> IF q = PathA THEN 1 ELSE 2]
          /\ c_dirs = Ancestors(PathA) \cup Ancestors(pb)
          /\ c_proc = <<NewProc(PathA), NewProc(pb)>>
    /\ CallIdle
    /\ GuiIdle

\* the content behind a directory entry
FileAt(path) == c_inodes[c_fs[path]]

\* File::create: the entry's content is replaced, or a new file is linked
CreateFile(path, content) ==
    IF path \in DOMAIN c_fs
    THEN /\ c_inodes' = [c_inodes EXCEPT ![c_fs[path]] = content]
         /\ UNCHANGED c_fs
    ELSE /\ c_inodes' = Append(c_inodes, content)
         /\ c_fs' = WriteFile(c_fs, path, Len(c_inodes) + 1)

\* WavReader::open on a file whose writer has not finalized it: the header
\* may or may not have left the writer's buffer
CanOpen(path, ok) ==
    /\ path \in DOMAIN c_fs
    /\ ok \/ FileAt(path).finalized

\* return from process_wav_file
CReturn(p, r) == c_proc' = [c_proc EXCEPT ![p].pc = "done", ![p].result = r]

\* let reader = WavReader::open(input_path)?; let spec = reader.spec();
COpenInput(p) ==
    /\ c_proc[p].pc = "open"
    /\ LET path == c_proc[p].path
       IN  \E ok \in BOOLEAN :
              IF CanOpen(path, ok)
              THEN c_proc' = [c_proc EXCEPT ![p].pc = "match",
                                            ![p].spec = FileAt(path).spec,
                                            ![p].reads = @ \cup {path}]
              ELSE CReturn(p, Err("UnreadableContainer"))
    /\ UNCHANGED <<c_fs, c_inodes, c_dirs, c_orig>>
    /\ UNCHANGED <<call_vars, gui_vars>>

\* match spec.channels { 1 => .., 2 => .., _ => .. }
CMatchChannels(p) ==
    /\ c_proc[p].pc = "match"
    /\ c_proc' =
          IF c_proc[p].spec.channels = 1
          THEN [c_proc EXCEPT ![p].route = "mono", ![p].pc = "create_dir"]
          ELSE IF c_proc[p].spec.channels = 2
          THEN [c_proc EXCEPT ![p].pc = "dm_open",
                              ![p].calls = @ \cup {"is_dual_mono"}]
          ELSE [c_proc EXCEPT ![p].route = "multichannel", ![p].pc = "create_dir"]
    /\ UNCHANGED <<c_fs, c_inodes, c_dirs, c_orig>>
    /\ UNCHANGED <<call_vars, gui_vars>>

\* fs::create_dir_all(&dir)?: succeeds whether or not the directory exists
CRouteCreateDir(p) ==
    /\ c_proc[p].pc = "create_dir"
    /\ c_dirs' = c_dirs \cup {OutputDir(c_proc[p].path, c_proc[p].route)}
    /\ c_proc' = [c_proc EXCEPT ![p].pc = "copy"]
    /\ UNCHANGED <<c_fs, c_inodes, c_orig>>
    /\ UNCHANGED <<call_vars, gui_vars>>

\* fs::copy(input_path, output_path)?
CRouteCopy(p) ==
    /\ c_proc[p].pc = "copy"
    /\ LET path == c_proc[p].path
           out == output_path(path, c_proc[p].route)
       IN  IF path \in DOMAIN c_fs
           THEN /\ CreateFile(out, FileAt(path))
                /\ c_proc' = [c_proc EXCEPT ![p].pc = "remove",
                                            ![p].reads = @ \cup {path},
                                            ![p].writes = @ \cup {out}]
           ELSE CReturn(p, Err("Io")) /\ UNCHANGED <<c_fs, c_inodes>>
    /\ UNCHANGED <<c_dirs, c_orig>>
    /\ UNCHANGED <<call_vars, gui_vars>>

\* fs::remove_file(input_path)?; Ok(format!(..))
CRouteRemove(p) ==
    /\ c_proc[p].pc = "remove"
    /\ LET path == c_proc[p].path
       IN  IF path \in DOMAIN c_fs
           THEN /\ c_fs' = RemoveFile(c_fs, path)
                /\ c_proc' = [c_proc EXCEPT ![p].pc = "done",
                                            ![p].result = Ok(c_proc[p].route),
                                            ![p].writes = @ \cup {path}]
           ELSE CReturn(p, Err("Io")) /\ UNCHANGED c_fs
    /\ UNCHANGED <<c_inodes, c_dirs, c_orig>>
    /\ UNCHANGED <<call_vars, gui_vars>>

\* is_dual_mono up to the loop: open, the channel check, the iterator match
CDmOpen(p) ==
    /\ c_proc[p].pc = "dm_open"
    /\ LET path == c_proc[p].path
       IN  \E ok \in BOOLEAN :
              IF ~CanOpen(path, ok)
              THEN CReturn(p, Err("UnreadableContainer"))
              ELSE LET sp == FileAt(path).spec
                   IN  IF sp.channels # 2
                       THEN c_proc' = [c_proc EXCEPT ![p].stereo_type = "DualMono",
                                                     ![p].pc = "match_type",
                                                     ![p].reads = @ \cup {path}]
                       ELSE IF ~HasSampleIterator(sp.sample_format, sp.bits_per_sample)
                       THEN CReturn(p, Err("UnsupportedEncoding"))
                       ELSE c_proc' = [c_proc EXCEPT ![p].dm_spec = sp,
                                                     ![p].rd = c_fs[path],
                                                     ![p].pc = "dm_loop",
                                                     ![p].reads = @ \cup {path}]
    /\ UNCHANGED <<c_fs, c_inodes, c_dirs, c_orig>>
    /\ UNCHANGED <<call_vars, gui_vars>>

\* one evaluation of the classifier's while-let condition and body
CDmLoop(p) ==
    /\ c_proc[p].pc = "dm_loop"
    /\ LET me == c_proc[p]
           data == c_inodes[me.rd].data
           f == me.dm_spec.sample_format
           b == me.dm_spec.bits_per_sample
       IN  IF me.dm_pos + 2 > Len(data)
           THEN c_proc' = [c_proc EXCEPT ![p].pc = "dm_verdict"]
           ELSE LET l == to_f32(f, b, data[me.dm_pos + 1])
                    r == to_f32(f, b, data[me.dm_pos + 2])
                    starts == AboveSilence(f, b, l) \/ AboveSilence(f, b, r)
                    side == l - r
                IN  IF ~SkipsPair(me.is_started, starts)
                    THEN c_proc' =
                           [c_proc EXCEPT
                              ![p].dm_pos = @ + 2,
                              ![p].is_started = TRUE,
                              ![p].side_energy_sum =
                                  BigAdd(@, BigMul(NatToBig(Abs(side)),
                                                   NatToBig(Abs(side)))),
                              ![p].analyzed_count = @ + 1,
                              ![p].pc = IF CapReached(me.analyzed_count + 1,
                                                      me.dm_spec.sample_rate)
                                        THEN "dm_verdict" ELSE "dm_loop"]
                    ELSE c_proc' = [c_proc EXCEPT ![p].dm_pos = @ + 2]
    /\ UNCHANGED <<c_fs, c_inodes, c_dirs, c_orig>>
    /\ UNCHANGED <<call_vars, gui_vars>>

\* the verdict computed after the loop
CDmVerdict(p) ==
    /\ c_proc[p].pc = "dm_verdict"
    /\ LET me == c_proc[p]
       IN  c_proc' = [c_proc EXCEPT
                        ![p].stereo_type =
                            Verdict(me.dm_spec.sample_format,
                                    me.dm_spec.bits_per_sample,
                                    me.side_energy_sum, me.analyzed_count),
                        ![p].pc = "match_type"]
    /\ UNCHANGED <<c_fs, c_inodes, c_dirs, c_orig>>
    /\ UNCHANGED <<call_vars, gui_vars>>

\* match stereo_type { TrueStereo => .., DualMono => .. }
CMatchStereoType(p) ==
    /\ c_proc[p].pc = "match_type"
    /\ c_proc' = IF c_proc[p].stereo_type = "TrueStereo"
                 THEN [c_proc EXCEPT ![p].route = "stereo", ![p].pc = "create_dir"]
                 ELSE [c_proc EXCEPT ![p].pc = "dual_create_dir"]
    /\ UNCHANGED <<c_fs, c_inodes, c_dirs, c_orig>>
    /\ UNCHANGED <<call_vars, gui_vars>>

\* fs::create_dir_all(&mono_dir)?
CDualCreateDir(p) ==
    /\ c_proc[p].pc = "dual_create_dir"
    /\ c_dirs' = c_dirs \cup {OutputDir(c_proc[p].path, "mono")}
    /\ c_proc' = [c_proc EXCEPT ![p].pc = "dual_writer"]
    /\ UNCHANGED <<c_fs, c_inodes, c_orig>>
    /\ UNCHANGED <<call_vars, gui_vars>>

\* let writer = WavWriter::create(&mono_output_path, mono_spec)?
CDualCreateWriter(p) ==
    /\ c_proc[p].pc = "dual_writer"
    /\ LET out == output_path(c_proc[p].path, "mono")
       IN  /\ CreateFile(out, [spec |-> mono_spec(c_proc[p].spec), data |-> <<>>,
                               finalized |-> FALSE])
           /\ c_proc' = [c_proc EXCEPT
                           ![p].wr = IF out \in DOMAIN c_fs THEN c_fs[out]
                                     ELSE Len(c_inodes) + 1,
                           ![p].calls = @ \cup {"WavWriter::create"},
                           ![p].writes = @ \cup {out},
                           ![p].pc = "dual_reopen"]
    /\ UNCHANGED <<c_dirs, c_orig>>
    /\ UNCHANGED <<call_vars, gui_vars>>

\* let reader_for_extract = WavReader::open(input_path)?
CDualReopen(p) ==
    /\ c_proc[p].pc = "dual_reopen"
    /\ LET path == c_proc[p].path
       IN  \E ok \in BOOLEAN :
              IF CanOpen(path, ok)
              THEN c_proc' = [c_proc EXCEPT ![p].ex_rd = c_fs[path],
                                            ![p].ex_pos = reader_for_extract_pos,
                                            ![p].reads = @ \cup {path},
                                            ![p].pc = "dual_dispatch"]
              ELSE CReturn(p, Err("UnreadableContainer"))
    /\ UNCHANGED <<c_fs, c_inodes, c_dirs, c_orig>>
    /\ UNCHANGED <<call_vars, gui_vars>>

\* match (spec.sample_format, spec.bits_per_sample) { .. _ => unreachable!() }
CDualDispatch(p) ==
    /\ c_proc[p].pc = "dual_dispatch"
    /\ IF HasExtractor(c_proc[p].spec.sample_format, c_proc[p].spec.bits_per_sample)
       THEN c_proc' = [c_proc EXCEPT ![p].calls = @ \cup {"extract_left_channel"},
                                     ![p].pc = "ex_loop"]
       ELSE CReturn(p, Err("Panic"))
    /\ UNCHANGED <<c_fs, c_inodes, c_dirs, c_orig>>
    /\ UNCHANGED <<call_vars, gui_vars>>

\* one evaluation of the extractor's while-let condition and body
CExLoop(p) ==
    /\ c_proc[p].pc = "ex_loop"
    /\ LET me == c_proc[p]
           data == c_inodes[me.ex_rd].data
           channels == me.spec.channels
       IN  IF StreamExhausted(me.ex_pos, channels, Len(data))
           THEN c_proc' = [c_proc EXCEPT ![p].pc = "ex_finalize"]
                /\ UNCHANGED c_inodes
           ELSE LET l_res == data[me.ex_pos + 1]
                IN  IF ~l_res.ok
                    THEN CReturn(p, Err("Decode")) /\ UNCHANGED c_inodes
                    ELSE /\ c_inodes' = [c_inodes EXCEPT ![me.wr].data =
                                                             Append(@, l_res)]
                         /\ c_proc' = [c_proc EXCEPT
                                         ![p].ex_pos =
                                             IF me.ex_pos + channels > Len(data)
                                             THEN Len(data)
                                             ELSE me.ex_pos + channels]
    /\ UNCHANGED <<c_fs, c_dirs, c_orig>>
    /\ UNCHANGED <<call_vars, gui_vars>>

\* writer.finalize()?; Ok(()) and process_wav_file's Ok(format!(..))
CExFinalize(p) ==
    /\ c_proc[p].pc = "ex_finalize"
    /\ c_inodes' = [c_inodes EXCEPT ![c_proc[p].wr].finalized = TRUE]
    /\ CReturn(p, Ok("extracted"))
    /\ UNCHANGED <<c_fs, c_dirs, c_orig>>
    /\ UNCHANGED <<call_vars, gui_vars>>

\* the calls run on independent threads: any of them takes the next step
NextConc ==
    \/ \E p \in ProcIds : COpenInput(p)
    \/ \E p \in ProcIds : CMatchChannels(p)
    \/ \E p \in ProcIds : CRouteCreateDir(p)
    \/ \E p \in ProcIds : CRouteCopy(p)
    \/ \E p \in ProcIds : CRouteRemove(p)
    \/ \E p \in ProcIds : CDmOpen(p)
    \/ \E p \in ProcIds : CDmLoop(p)
    \/ \E p \in ProcIds : CDmVerdict(p)
    \/ \E p \in ProcIds : CMatchStereoType(p)
    \/ \E p \in ProcIds : CDualCreateDir(p)
    \/ \E p \in ProcIds : CDualCreateWriter(p)
    \/ \E p \in ProcIds : CDualReopen(p)
    \/ \E p \in ProcIds : CDualDispatch(p)
    \/ \E p \in ProcIds : CExLoop(p)
    \/ \E p \in ProcIds : CExFinalize(p)

SpecConc == InitConc /\ [][NextConc]_vars

\* ---- what a call does when no other call runs
AloneSub(file) ==
    IF file.spec.channels = 1 THEN "mono"
    ELSE IF file.spec.channels = 2
    THEN IF ExpectedVerdict(file) = "TrueStereo" THEN "stereo" ELSE "mono"
    ELSE "multichannel"

AloneResult(file) ==
    IF file.spec.channels = 2 /\ ExpectedVerdict(file) = "DualMono"
    THEN Ok("extracted")
    ELSE Ok(AloneSub(file))

AloneOutput(file) ==
    IF file.spec.channels = 2 /\ ExpectedVerdict(file) = "DualMono"
    THEN [spec |-> [file.spec EXCEPT !.channels = 1],
          data |-> Channel0(file.data), finalized |-> TRUE]
    ELSE file

CDone(p) == c_proc[p].pc = "done"

\* the call's result and output are those of the call run alone
AsAlone(p) ==
    LET out == output_path(c_proc[p].path, AloneSub(c_orig[p]))
    IN  /\ c_proc[p].result = AloneResult(c_orig[p])
        /\ out \in DOMAIN c_fs
        /\ FileAt(out) = AloneOutput(c_orig[p])

\* no call in flight reads or writes a file the other in-flight call writes
NoSharedFile ==
    \A p, q \in ProcIds :
        (p # q /\ ~CDone(p) /\ ~CDone(q))
            => c_proc[p].writes \cap (c_proc[q].reads \cup c_proc[q].writes) = {}

\* C11: concurrent calls on different asset paths do not interfere: each
\* finished call has the result and the output of the call run alone, and no
\* in-flight call touches a file another in-flight call writes, also when
\* one call's input path is the other's mono output path
C11_ConcurrentCallsDoNotInterfere ==
    /\ \A p \in ProcIds : CDone(p) => AsAlone(p)
    /\ NoSharedFile

\* some call's input path is where another call writes an output
OutputSubs == {"mono", "stereo", "multichannel"}
Aliased ==
    \E p, q \in ProcIds, sub \in OutputSubs :
        /\ p # q
        /\ c_proc[p].path = parent_dir(c_proc[q].path) \o <<sub, file_name(c_proc[q].path)>>

\* C11 (amended): concurrent calls on different asset paths, none of which
\* is an output path parent/{mono,stereo,multichannel}/<name> of another
\* call, do not interfere: each finished call has the result and the output
\* of the call run alone and no in-flight call touches a file another
\* in-flight call writes, also when both create the same output directory
C11_UnaliasedCallsDoNotInterfere ==
    ~Aliased => C11_ConcurrentCallsDoNotInterfere

\* two finished calls on siblings that both wrote into in/mono, one by
\* extraction and one by copy
C11_Witness ==
    /\ ~Aliased
    /\ \A p \in ProcIds : CDone(p) /\ c_proc[p].result.kind = "Ok"
    /\ c_proc[1].result = Ok("extracted")
    /\ c_proc[2].result = Ok("mono")
    /\ {output_path(c_proc[p].path, "mono") : p \in ProcIds} \subseteq DOMAIN c_fs


\* ------------------------------------ a call on a previous call's output
\* the assets of the first call: ConcFiles at three amplitudes
RerunFiles ==
    ConcFiles(Quiet("Int", 16)) \cup ConcFiles(Loud("Int", 16))
        \cup ConcFiles(Big("Int", 16))

\* the second call's input path is the first call's mono output path, where
\* no file exists before the first call
InitRerun ==
    /\ \E a \in RerunFiles :
          /\ c_orig = <<a, a>>
          /\ c_inodes = <<a>>
    /\ c_fs = [q \in {PathA} |-> 1]
    /\ c_dirs = Ancestors(PathA)
    /\ c_proc = <<NewProc(PathA), NewProc(output_path(PathA, "mono"))>>
    /\ CallIdle
    /\ GuiIdle

\* the second call is made after the first has returned
RerunTurn(p) == p = 1 \/ CDone(1)

NextRerun ==
    \/ \E p \in ProcIds : RerunTurn(p) /\ COpenInput(p)
    \/ \E p \in ProcIds : RerunTurn(p) /\ CMatchChannels(p)
    \/ \E p \in ProcIds : RerunTurn(p) /\ CRouteCreateDir(p)
    \/ \E p \in ProcIds : RerunTurn(p) /\ CRouteCopy(p)
    \/ \E p \in ProcIds : RerunTurn(p) /\ CRouteRemove(p)
    \/ \E p \in ProcIds : RerunTurn(p) /\ CDmOpen(p)
    \/ \E p \in ProcIds : RerunTurn(p) /\ CDmLoop(p)
    \/ \E p \in ProcIds : RerunTurn(p) /\ CDmVerdict(p)
    \/ \E p \in ProcIds : RerunTurn(p) /\ CMatchStereoType(p)
    \/ \E p \in ProcIds : RerunTurn(p) /\ CDualCreateDir(p)
    \/ \E p \in ProcIds : RerunTurn(p) /\ CDualCreateWriter(p)
    \/ \E p \in ProcIds : RerunTurn(p) /\ CDualReopen(p)
    \/ \E p \in ProcIds : RerunTurn(p) /\ CDualDispatch(p)
    \/ \E p \in ProcIds : RerunTurn(p) /\ CExLoop(p)
    \/ \E p \in ProcIds : RerunTurn(p) /\ CExFinalize(p)

SpecRerun == InitRerun /\ [][NextRerun]_vars

\* the first call reduced a DualMono asset and the second call has returned
RerunOfReduction ==
    /\ CDone(1)
    /\ c_proc[1].stereo_type = "DualMono"
    /\ c_proc[1].result = Ok("extracted")
    /\ CDone(2)

\* C12: process_wav_file on the 1-channel file a DualMono reduction wrote
\* succeeds through the 1-channel branch, its output holds exactly what that
\* mono file held, and it neither classifies nor extracts
C12_RerunOnReducedOutput ==
    RerunOfReduction =>
        LET out == output_path(c_proc[2].path, "mono")
        IN  /\ c_proc[2].result = Ok("mono")
            /\ c_proc[2].spec.channels = 1
            /\ c_proc[2].calls = {}
            /\ c_proc[2].stereo_type = None
            /\ out \in DOMAIN c_fs
            /\ FileAt(out) = c_inodes[c_proc[1].wr]
            /\ FileAt(out).data = Channel0(c_orig[1].data)

C12_Witness ==
    /\ RerunOfReduction
    /\ c_proc[2].result = Ok("mono")
    /\ Len(FileAt(output_path(c_proc[2].path, "mono")).data) = 2


\* ======================================== the task queue of the window
\* MyApp::update runs on the UI thread, run_conversion_loop on the threads
\* update spawns; tasks and app_state are shared behind one mutex each, so
\* every step below is one critical section or one call.

\* the number of .wav files dropped on the window over a run
MaxTasks == 2

\* every spawn but the first follows a push or a stale has_pending
MaxWorkers == 2 * MaxTasks + 1

TaskIds == 1..MaxTasks
WorkerIds == 1..MaxWorkers

InitGui ==
    /\ g_tasks = <<>>
    /\ g_handed = <<>>
    /\ g_app_state = "Idle"
    /\ g_workers = <<>>
    /\ g_ui = [pc |-> "idle", dropped |-> 0]
    /\ g_repaint = FALSE
    /\ ConcIdle
    /\ CallIdle

\* tasks.iter().any(|t| matches!(t.status, FileStatus::Pending))
has_pending == \E i \in DOMAIN g_tasks : g_tasks[i] = "Pending"

\* the index the scan stops at: the first Pending task, 0 for None
FirstPending ==
    IF has_pending
    THEN CHOOSE i \in DOMAIN g_tasks :
            /\ g_tasks[i] = "Pending"
            /\ \A j \in 1..(i - 1) : g_tasks[j] # "Pending"
    ELSE 0

\* ctx.request_repaint()
request_repaint == g_repaint' = TRUE

\* update is called because a repaint was requested
U_Repaint ==
    /\ g_ui.pc = "idle"
    /\ g_repaint
    /\ g_repaint' = FALSE
    /\ g_ui' = [pc |-> "has_pending", dropped |-> 0]
    /\ UNCHANGED <<g_tasks, g_handed, g_app_state, g_workers>>
    /\ UNCHANGED <<call_vars, conc_vars>>

\* update is called because of an input event, which may drop n .wav files
U_Event ==
    /\ g_ui.pc = "idle"
    /\ \E n \in 0..(MaxTasks - Len(g_tasks)) :
          g_ui' = [pc |-> "has_pending", dropped |-> n]
    /\ g_repaint' = FALSE
    /\ UNCHANGED <<g_tasks, g_handed, g_app_state, g_workers>>
    /\ UNCHANGED <<call_vars, conc_vars>>

\* let has_pending = { .. }; if has_pending { .. }
U_HasPending ==
    /\ g_ui.pc = "has_pending"
    /\ g_ui' = [g_ui EXCEPT !.pc = IF has_pending THEN "read_state" ELSE "collect"]
    /\ UNCHANGED <<g_tasks, g_handed, g_app_state, g_workers, g_repaint>>
    /\ UNCHANGED <<call_vars, conc_vars>>

\* a worker spawned whatever app_state holds
U_ReadState_IgnoresState ==
    /\ g_ui.pc = "read_state"
    /\ g_ui' = [g_ui EXCEPT !.pc = "set_converting"]
    /\ UNCHANGED <<g_tasks, g_handed, g_app_state, g_workers, g_repaint>>
    /\ UNCHANGED <<call_vars, conc_vars>>

\* let app_state = *self.app_state.lock().unwrap(); match app_state { .. }
U_ReadState ==
    /\ g_ui.pc = "read_state"
    /\ g_ui' = [g_ui EXCEPT !.pc = IF g_app_state = "Idle" THEN "set_converting"
                                   ELSE "collect"]
    /\ UNCHANGED <<g_tasks, g_handed, g_app_state, g_workers, g_repaint>>
    /\ UNCHANGED <<call_vars, conc_vars>>

\* *self.app_state.lock().unwrap() = AppState::Converting
U_SetConverting ==
    /\ g_ui.pc = "set_converting"
    /\ g_app_state' = "Converting"
    /\ g_ui' = [g_ui EXCEPT !.pc = "spawn"]
    /\ UNCHANGED <<g_tasks, g_handed, g_workers, g_repaint>>
    /\ UNCHANGED <<call_vars, conc_vars>>

\* a thread at the start of run_conversion_loop
NewWorker == [pc |-> "scan", idx |-> 0, res |-> None]

\* thread::spawn(move || { .. })
U_Spawn ==
    /\ g_ui.pc = "spawn"
    /\ Len(g_workers) < MaxWorkers
    /\ g_workers' = Append(g_workers, NewWorker)
    /\ g_ui' = [g_ui EXCEPT !.pc = "collect"]
    /\ UNCHANGED <<g_tasks, g_handed, g_app_state, g_repaint>>
    /\ UNCHANGED <<call_vars, conc_vars>>

\* ctx.input(|i| { .. tasks.push(ProcessTask { .., status: Pending }) .. })
U_Collect ==
    /\ g_ui.pc = "collect"
    /\ g_tasks' = g_tasks \o [i \in 1..g_ui.dropped |-> "Pending"]
    /\ g_handed' = g_handed \o [i \in 1..g_ui.dropped |-> 0]
    /\ g_ui' = [pc |-> "idle", dropped |-> 0]
    /\ UNCHANGED <<g_app_state, g_workers, g_repaint>>
    /\ UNCHANGED <<call_vars, conc_vars>>

\* the scan under the lock: the first Pending task becomes Processing
W_Scan(w) ==
    /\ w \in DOMAIN g_workers
    /\ g_workers[w].pc = "scan"
    /\ g_workers' = [g_workers EXCEPT ![w].idx = FirstPending, ![w].pc = "scanned"]
    /\ g_tasks' = IF has_pending
                  THEN [g_tasks EXCEPT ![FirstPending] = "Processing"]
                  ELSE g_tasks
    /\ UNCHANGED <<g_handed, g_app_state, g_ui, g_repaint>>
    /\ UNCHANGED <<call_vars, conc_vars>>

\* ctx.request_repaint(); if let Some(idx) = index { .. } else { break }
W_AfterScan(w) ==
    /\ w \in DOMAIN g_workers
    /\ g_workers[w].pc = "scanned"
    /\ request_repaint
    /\ g_workers' = [g_workers EXCEPT ![w].pc = IF g_workers[w].idx # 0
                                                 THEN "process" ELSE "left_loop"]
    /\ UNCHANGED <<g_tasks, g_handed, g_app_state, g_ui>>
    /\ UNCHANGED <<call_vars, conc_vars>>

\* let path = ..; let result = process_wav_file(&path)
W_Process(w) ==
    /\ w \in DOMAIN g_workers
    /\ g_workers[w].pc = "process"
    /\ \E r \in {"Success", "Error"} :
          g_workers' = [g_workers EXCEPT ![w].res = r, ![w].pc = "store"]
    /\ g_handed' = [g_handed EXCEPT ![g_workers[w].idx] = @ + 1]
    /\ UNCHANGED <<g_tasks, g_app_state, g_ui, g_repaint>>
    /\ UNCHANGED <<call_vars, conc_vars>>

\* match result { Ok(msg) => tasks_lock[idx].status = .., Err(e) => .. }
W_Store(w) ==
    /\ w \in DOMAIN g_workers
    /\ g_workers[w].pc = "store"
    /\ g_tasks' = [g_tasks EXCEPT ![g_workers[w].idx] = g_workers[w].res]
    /\ g_workers' = [g_workers EXCEPT ![w].pc = "stored"]
    /\ UNCHANGED <<g_handed, g_app_state, g_ui, g_repaint>>
    /\ UNCHANGED <<call_vars, conc_vars>>

\* ctx.request_repaint() and the next iteration of the loop
W_AfterStore(w) ==
    /\ w \in DOMAIN g_workers
    /\ g_workers[w].pc = "stored"
    /\ request_repaint
    /\ g_workers' = [g_workers EXCEPT ![w] = NewWorker]
    /\ UNCHANGED <<g_tasks, g_handed, g_app_state, g_ui>>
    /\ UNCHANGED <<call_vars, conc_vars>>

\* *state_store.lock().unwrap() = AppState::Idle
W_SetIdle(w) ==
    /\ w \in DOMAIN g_workers
    /\ g_workers[w].pc = "left_loop"
    /\ g_app_state' = "Idle"
    /\ g_workers' = [g_workers EXCEPT ![w].pc = "idle_set"]
    /\ UNCHANGED <<g_tasks, g_handed, g_ui, g_repaint>>
    /\ UNCHANGED <<call_vars, conc_vars>>

\* ctx_store.request_repaint(), the thread's last statement
W_Exit(w) ==
    /\ w \in DOMAIN g_workers
    /\ g_workers[w].pc = "idle_set"
    /\ request_repaint
    /\ g_workers' = [g_workers EXCEPT ![w].pc = "exited"]
    /\ UNCHANGED <<g_tasks, g_handed, g_app_state, g_ui>>
    /\ UNCHANGED <<call_vars, conc_vars>>

\* update from has_pending to its return
UpdateStep ==
    \/ U_HasPending
    \/ U_ReadState
    \/ U_SetConverting
    \/ U_Spawn
    \/ U_Collect

\* the next step of the spawned thread w
WorkerStep(w) ==
    \/ W_Scan(w)
    \/ W_AfterScan(w)
    \/ W_Process(w)
    \/ W_Store(w)
    \/ W_AfterStore(w)
    \/ W_SetIdle(w)
    \/ W_Exit(w)

NextGui ==
    \/ U_Repaint
    \/ U_Event
    \/ U_HasPending
    \/ U_ReadState
    \/ U_SetConverting
    \/ U_Spawn
    \/ U_Collect
    \/ \E w \in WorkerIds : W_Scan(w)
    \/ \E w \in WorkerIds : W_AfterScan(w)
    \/ \E w \in WorkerIds : W_Process(w)
    \/ \E w \in WorkerIds : W_Store(w)
    \/ \E w \in WorkerIds : W_AfterStore(w)
    \/ \E w \in WorkerIds : W_SetIdle(w)
    \/ \E w \in WorkerIds : W_Exit(w)

SpecGui == InitGui /\ [][NextGui]_vars

\* every spawned thread is scheduled, process_wav_file returns, an update
\* call returns, and a requested repaint leads to an update call
FairGui ==
    /\ \A w \in WorkerIds : WF_vars(WorkerStep(w))
    /\ WF_vars(UpdateStep)
    /\ WF_vars(U_Repaint)

SpecGuiFair == InitGui /\ [][NextGui]_vars /\ FairGui

\* ---- C17
\* the threads inside run_conversion_loop
InLoop == {w \in DOMAIN g_workers :
              g_workers[w].pc \in {"scan", "scanned", "process", "store", "stored"}}

Terminal(i) == i \in DOMAIN g_tasks /\ g_tasks[i] \in {"Success", "Error"}

\* the only changes of a task's status
StatusStep ==
    /\ Len(g_tasks') >= Len(g_tasks)
    /\ \A i \in DOMAIN g_tasks :
          \/ g_tasks'[i] = g_tasks[i]
          \/ g_tasks[i] = "Pending" /\ g_tasks'[i] = "Processing"
          \/ g_tasks[i] = "Processing" /\ g_tasks'[i] \in {"Success", "Error"}

\* C17: at most one thread is inside run_conversion_loop at a time, each
\* task is passed to process_wav_file at most once, and a task's status only
\* moves Pending -> Processing -> Success|Error, never out of Success|Error
C17_QueueIsSafe ==
    /\ [](Cardinality(InLoop) <= 1)
    /\ [](\A i \in DOMAIN g_handed : g_handed[i] <= 1)
    /\ [][StatusStep]_vars

\* a second thread has been spawned after the first one left the loop, and
\* both tasks were passed to process_wav_file
C17_Witness ==
    /\ Len(g_workers) >= 2
    /\ Len(g_tasks) = 2
    /\ \A i \in DOMAIN g_tasks : Terminal(i) /\ g_handed[i] = 1
    /\ g_tasks[1] # g_tasks[2]

\* ---- C18
Pending(i) == i \in DOMAIN g_tasks /\ g_tasks[i] = "Pending"

\* C18: every task pushed as Pending eventually reaches Success or Error
C18_EveryPendingTaskIsProcessed ==
    \A i \in TaskIds : Pending(i) ~> Terminal(i)

\* the liveness the queue does have: a task that is Pending when an update
\* call evaluates has_pending eventually reaches Success or Error, also a
\* task dropped after the thread left its loop and before it set app_state
\* to Idle
SeenPendingTaskIsProcessed ==
    \A i \in TaskIds : (Pending(i) /\ g_ui.pc = "has_pending") ~> Terminal(i)

\* update evaluates has_pending while task 2, dropped after the thread left
\* its loop, is Pending and app_state is still Converting
DroppedAfterLoopLeft ==
    /\ g_ui.pc = "has_pending"
    /\ Terminal(1)
    /\ Pending(2)
    /\ g_app_state = "Converting"
    /\ \E w \in DOMAIN g_workers : g_workers[w].pc = "left_loop"

============================================================================
